---------------------------- MODULE Spec2Model ----------------------------
(***************************************************************************)
(* Task Tracker CLI (src/main.py): the Task entity, the JSON store and the *)
(* TaskManager registry, as a state machine.                               *)
(*                                                                         *)
(* Python strings are modelled as sequences of one-character strings, so   *)
(* that str.upper() and datetime.strptime() are computed on the text.      *)
(***************************************************************************)
EXTENDS Integers, Sequences, FiniteSets, TLC

(***************************************************************************)
(* Bounds of the model.                                                    *)
(***************************************************************************)
\* most manager calls (add, status, update, delete) made in one run
MaxCalls == 4
\* last second of the modelled wall clock (seconds after 2025-06-01 08:00:00)
\* in a run of commands
MaxClock == 1
\* most iterations of the notification loop in one run
MaxPolls == 3
\* most calls in a run on a storage that may fail
MaxIOCalls == 3

(***************************************************************************)
(* Text: string constants of the program and of its callers.               *)
(***************************************************************************)
TODO == <<"T", "O", "D", "O">>
IN_PROGRESS == <<"I", "N", "_", "P", "R", "O", "G", "R", "E", "S", "S">>
DONE == <<"D", "O", "N", "E">>
HIGH == <<"H", "I", "G", "H">>
MEDIUM == <<"M", "E", "D", "I", "U", "M">>
LOW == <<"L", "O", "W">>
NA == <<"N", "/", "A">>

VALID_STATUSES == {TODO, IN_PROGRESS, DONE}
VALID_PRIORITIES == {HIGH, MEDIUM, LOW}

LowerLetters ==
    <<"a", "b", "c", "d", "e", "f", "g", "h", "i", "j", "k", "l", "m",
      "n", "o", "p", "q", "r", "s", "t", "u", "v", "w", "x", "y", "z">>
UpperLetters ==
    <<"A", "B", "C", "D", "E", "F", "G", "H", "I", "J", "K", "L", "M",
      "N", "O", "P", "Q", "R", "S", "T", "U", "V", "W", "X", "Y", "Z">>

\* str.upper() on one character
UpperChar(c) ==
    IF \E i \in 1..26 : LowerLetters[i] = c
    THEN UpperLetters[CHOOSE i \in 1..26 : LowerLetters[i] = c]
    ELSE c

\* str.upper()
Upper(s) == [i \in 1..Len(s) |-> UpperChar(s[i])]

Digits == <<"0", "1", "2", "3", "4", "5", "6", "7", "8", "9">>
IsDigit(c) == \E i \in 1..10 : Digits[i] = c
DigitVal(c) == (CHOOSE i \in 1..10 : Digits[i] = c) - 1
TwoDigits(n) == <<Digits[(n \div 10) + 1], Digits[(n % 10) + 1]>>

\* a faulty truth test: every value counts as given
Truthy_always(s) == TRUE

\* Python truthiness of an optional string argument: None and "" are falsy.
\* None is modelled as the empty text (both take the same branch everywhere).
Truthy(s) == s # <<>>

(***************************************************************************)
(* Dates.  DATE_FORMAT = "%Y-%m-%d %H:%M".                                 *)
(***************************************************************************)
IsLeap(y) == (y % 4 = 0 /\ y % 100 # 0) \/ y % 400 = 0
DaysIn(y, m) ==
    IF m = 2 THEN (IF IsLeap(y) THEN 29 ELSE 28)
    ELSE IF m \in {4, 6, 9, 11} THEN 30 ELSE 31

\* the layout of a zero-padded YYYY-MM-DD HH:MM text.  (strptime also takes
\* one-digit months, days, hours and minutes; every date text among the inputs
\* below is zero-padded or no date at all, so that tolerance is never used.)
DateLayout(s) ==
    /\ Len(s) = 16
    /\ \A i \in {1, 2, 3, 4, 6, 7, 9, 10, 12, 13, 15, 16} : IsDigit(s[i])
    /\ s[5] = "-" /\ s[8] = "-" /\ s[11] = " " /\ s[14] = ":"

\* parse_date: [ok |-> FALSE] stands for the ValueError it raises
parse_date(s) ==
    IF ~DateLayout(s) THEN [ok |-> FALSE]
    ELSE LET y == DigitVal(s[1]) * 1000 + DigitVal(s[2]) * 100
                    + DigitVal(s[3]) * 10 + DigitVal(s[4])
             m == DigitVal(s[6]) * 10 + DigitVal(s[7])
             d == DigitVal(s[9]) * 10 + DigitVal(s[10])
             h == DigitVal(s[12]) * 10 + DigitVal(s[13])
             mi == DigitVal(s[15]) * 10 + DigitVal(s[16])
         IN IF y >= 1 /\ m \in 1..12 /\ d >= 1 /\ d <= DaysIn(y, m)
               /\ h \in 0..23 /\ mi \in 0..59
            THEN [ok |-> TRUE, year |-> y, month |-> m, day |-> d,
                  hour |-> h, minute |-> mi]
            ELSE [ok |-> FALSE]

\* now_str(): the clock reading n (seconds after 2025-06-01 08:00:00, within
\* the first hour) formatted as "%Y-%m-%d %H:%M:%S"
now_str(n) ==
    <<"2", "0", "2", "5", "-", "0", "6", "-", "0", "1", " ", "0", "8", ":">>
        \o TwoDigits(n \div 60) \o <<":">> \o TwoDigits(n % 60)

\* date.toordinal(): days since 0001-01-01, that day being 1
DaysBeforeMonth(y, m) ==
    LET F[k \in 0..12] == IF k = 0 THEN 0 ELSE F[k - 1] + DaysIn(y, k)
    IN F[m - 1]
Ordinal(y, m, d) ==
    365 * (y - 1) + ((y - 1) \div 4) - ((y - 1) \div 100) + ((y - 1) \div 400)
        + DaysBeforeMonth(y, m) + d

\* (end_dt - now).total_seconds() for a parsed date and the clock reading n
SecondsUntil(dt, n) ==
    (Ordinal(dt.year, dt.month, dt.day) - Ordinal(2025, 6, 1)) * 86400
        + (dt.hour - 8) * 3600 + dt.minute * 60 - n

(***************************************************************************)
(* State.                                                                  *)
(***************************************************************************)
VARIABLES
    tasks,         \* TaskManager.tasks: the in-memory list of Task objects
    file,          \* TASK_FILE (storage.json): missing, unparseable, or a JSON list
    now,           \* the wall clock, in seconds
    disk,          \* whether writing TASK_FILE works: "ok", "open_fails", "write_fails"
    pc,            \* where the process is: "ready", "notify" (inside the loop), "stopped";
                   \* for the entity alone: "entity", "dict", "record", "restored", "read"
    notified_ids,  \* check_notifications' local set of ids already notified
    sent,          \* history: the ids plyer_notification.notify was called for, in order
    reminded,      \* history: the tasks notify was called for, as <<id, created_at>>
    saving,        \* another process inside save_tasks: <<>>, or <<file before, file after>>
    assigned,      \* history: every id add_task has assigned in this run
    calls,         \* history: the number of commands and loop iterations so far
    lastOp         \* history: the last call, its arguments and the path it returned by

vars ==
    <<tasks, file, now, disk, pc, notified_ids, sent, reminded, saving, assigned, calls,
      lastOp>>

(***************************************************************************)
(* Task entity.                                                            *)
(***************************************************************************)
\* a faulty constructor call: start_time and end_time change places
Task_swapped_times(task_id, description, status, priority, start_time, end_time, reminder_enabled, created_at, updated_at) ==
    [task_id |-> task_id, description |-> description, status |-> status,
     priority |-> priority, start_time |-> end_time, end_time |-> start_time,
     reminder_enabled |-> reminder_enabled, created_at |-> created_at,
     updated_at |-> updated_at]

\* Task.__init__
Task(task_id, description, status, priority, start_time, end_time, reminder_enabled, created_at, updated_at) ==
    [task_id |-> task_id, description |-> description, status |-> status,
     priority |-> priority, start_time |-> start_time, end_time |-> end_time,
     reminder_enabled |-> reminder_enabled, created_at |-> created_at,
     updated_at |-> updated_at]

\* a faulty to_dict: the key "reminder_enabled" is left out
to_dict_no_reminder(t) ==
    [id |-> t.task_id, description |-> t.description, status |-> t.status,
     priority |-> t.priority, start_time |-> t.start_time,
     end_time |-> t.end_time, created_at |-> t.created_at,
     updated_at |-> t.updated_at]

\* Task.to_dict: the JSON object written for a task (the attribute task_id is
\* stored under the key "id")
to_dict(t) ==
    [id |-> t.task_id, description |-> t.description, status |-> t.status,
     priority |-> t.priority, start_time |-> t.start_time,
     end_time |-> t.end_time, reminder_enabled |-> t.reminder_enabled,
     created_at |-> t.created_at, updated_at |-> t.updated_at]

\* dict.get(key, default)
Get(data, key, default) == IF key \in DOMAIN data THEN data[key] ELSE default

\* a faulty fallback: the legacy key is not read
GetOr_no_legacy(data, key, legacy, n) ==
    IF key \in DOMAIN data /\ Truthy(data[key]) THEN data[key] ELSE now_str(n)

\* data.get(key) or data.get(legacy, now_str()): the value under key when it is
\* there and truthy, otherwise the value under the legacy key, otherwise the time
GetOr(data, key, legacy, n) ==
    IF key \in DOMAIN data /\ Truthy(data[key]) THEN data[key]
    ELSE Get(data, legacy, now_str(n))

\* Task.from_dict: [ok |-> FALSE] stands for the KeyError of data["id"] or
\* data["description"]
from_dict(data, n) ==
    IF "id" \notin DOMAIN data \/ "description" \notin DOMAIN data
    THEN [ok |-> FALSE]
    ELSE [ok |-> TRUE,
          task |-> Task(data["id"], data["description"],
                        Get(data, "status", TODO),
                        Get(data, "priority", MEDIUM),
                        Get(data, "start_time", NA),
                        Get(data, "end_time", NA),
                        Get(data, "reminder_enabled", FALSE),
                        GetOr(data, "created_at", "createdAt", n),
                        GetOr(data, "updated_at", "updatedAt", n))]

(***************************************************************************)
(* Store.                                                                  *)
(***************************************************************************)
FileMissing == [kind |-> "missing", data |-> <<>>]
\* content json.load cannot parse (broken or empty text)
FileCorrupt == [kind |-> "corrupt", data |-> <<>>]
FileJson(records) == [kind |-> "json", data |-> records]

\* a faulty load_tasks: the JSONDecodeError handler does not reset self.tasks
load_tasks_stale(old, f, n) ==
    IF f.kind = "missing" \/ f.kind = "corrupt" THEN old
    ELSE IF \E i \in 1..Len(f.data) : ~from_dict(f.data[i], n).ok THEN <<>>
    ELSE [i \in 1..Len(f.data) |-> from_dict(f.data[i], n).task]

\* a faulty load_tasks: a list that is not empty is kept, the file is not read
load_tasks_once(old, f, n) ==
    IF old # <<>> THEN old
    ELSE IF f.kind = "missing" THEN old
    ELSE IF f.kind = "corrupt" THEN <<>>
    ELSE IF \E i \in 1..Len(f.data) : ~from_dict(f.data[i], n).ok THEN <<>>
    ELSE [i \in 1..Len(f.data) |-> from_dict(f.data[i], n).task]

\* TaskManager.load_tasks: the new value of self.tasks, given the old one
load_tasks(old, f, n) ==
    IF f.kind = "missing" THEN old
    ELSE IF f.kind = "corrupt" THEN <<>>
    ELSE IF \E i \in 1..Len(f.data) : ~from_dict(f.data[i], n).ok THEN <<>>
    ELSE [i \in 1..Len(f.data) |-> from_dict(f.data[i], n).task]

\* the path load_tasks returns by
LoadPath(f, n) ==
    IF f.kind = "missing" THEN "no_file"
    ELSE IF f.kind = "corrupt" THEN "json_error"
    ELSE IF \E i \in 1..Len(f.data) : ~from_dict(f.data[i], n).ok THEN "error"
    ELSE "loaded"

\* a faulty save_tasks: the file is opened without truncation, and what a
\* failed write left in it stays in front of the new content
save_tasks_no_truncate(ts, f, d) ==
    IF d = "ok"
    THEN IF f.kind = "corrupt" THEN FileCorrupt
         ELSE FileJson([i \in 1..Len(ts) |-> to_dict(ts[i])])
    ELSE IF d = "open_fails" THEN f
    ELSE FileCorrupt

\* TaskManager.save_tasks: the new content of the file.  open(.., "w") fails:
\* the file is untouched; json.dump fails after open truncated the file: what
\* is left does not parse.  Neither raises (except Exception).
save_tasks(ts, f, d) ==
    IF d = "ok" THEN FileJson([i \in 1..Len(ts) |-> to_dict(ts[i])])
    ELSE IF d = "open_fails" THEN f
    ELSE FileCorrupt

\* max(..., default=0) over the ids of a list of tasks
MaxTaskId(ts) ==
    IF Len(ts) = 0 THEN 0
    ELSE CHOOSE m \in {ts[i].task_id : i \in 1..Len(ts)} :
             \A i \in 1..Len(ts) : ts[i].task_id <= m

\* a faulty get_next_id: the length of the list plus one
get_next_id_count(ts) == Len(ts) + 1

\* TaskManager.get_next_id
get_next_id(ts) == MaxTaskId(ts) + 1

\* find_task: the index of the first task with that id, 0 for None
find_task(ts, task_id) ==
    IF \E i \in 1..Len(ts) : ts[i].task_id = task_id
    THEN CHOOSE i \in 1..Len(ts) :
             /\ ts[i].task_id = task_id
             /\ \A j \in 1..(i - 1) : ts[j].task_id # task_id
    ELSE 0

\* a faulty removal: list.pop(), whatever the index
RemoveLast(ts, i) == SubSeq(ts, 1, Len(ts) - 1)

\* list.remove of the element at index i
RemoveAt(ts, i) ==
    [j \in 1..(Len(ts) - 1) |-> IF j < i THEN ts[j] ELSE ts[j + 1]]

(***************************************************************************)
(* TaskManager commands.  Each is the whole method: validation, mutation   *)
(* of the list, save_tasks.  lastOp records the path the method returned   *)
(* by; no method lets an exception out on the inputs modelled.             *)
(***************************************************************************)
Returned(op, args, result) == [op |-> op, args |-> args, result |-> result]

\* a second reading of the clock within one call: the same second or the next
Later(n) == {m \in {n, n + 1} : m <= MaxClock}

\* a faulty validation of add_task: end_time is never parsed
add_path_start_only(start_time, end_time, priority) ==
    IF ~parse_date(start_time).ok THEN "invalid_date"
    ELSE IF Upper(priority) \notin VALID_PRIORITIES THEN "invalid_priority"
    ELSE "ok"

\* add_task's validation: the dates first, then the upper-cased priority
add_path(start_time, end_time, priority) ==
    IF ~parse_date(start_time).ok \/ ~parse_date(end_time).ok
    THEN "invalid_date"
    ELSE IF Upper(priority) \notin VALID_PRIORITIES THEN "invalid_priority"
    ELSE "ok"

\* TaskManager.add_task
add_task(description, start_time, end_time, reminder, priority) ==
    /\ UNCHANGED <<disk, pc, notified_ids, sent, reminded, saving>>
    /\ lastOp' = Returned("add",
                          <<description, start_time, end_time, reminder, priority>>,
                          add_path(start_time, end_time, priority))
    /\ IF add_path(start_time, end_time, priority) # "ok"
       THEN UNCHANGED <<tasks, file, now, assigned>>
       ELSE \E n2 \in Later(now) :
               LET task == Task(get_next_id(tasks), description, TODO,
                                Upper(priority), start_time, end_time,
                                reminder, now_str(now), now_str(n2))
                   ts == Append(tasks, task)
               IN /\ tasks' = ts
                  /\ file' = save_tasks(ts, file, disk)
                  /\ now' = n2
                  /\ assigned' = assigned \cup {task.task_id}

\* faulty checks of update_status: the status is not compared with VALID_STATUSES
status_path_unchecked(ts, task_id, new_status) ==
    IF find_task(ts, task_id) = 0 THEN "not_found" ELSE "ok"

\* faulty checks of update_status: a task that is DONE takes no other status
status_path_done_final(ts, task_id, new_status) ==
    IF Upper(new_status) \notin VALID_STATUSES THEN "invalid_status"
    ELSE IF find_task(ts, task_id) = 0 THEN "not_found"
    ELSE IF ts[find_task(ts, task_id)].status = DONE THEN "invalid_status"
    ELSE "ok"

\* update_status's checks: the upper-cased status first, then the lookup
status_path(ts, task_id, new_status) ==
    IF Upper(new_status) \notin VALID_STATUSES THEN "invalid_status"
    ELSE IF find_task(ts, task_id) = 0 THEN "not_found"
    ELSE "ok"

\* TaskManager.update_status
update_status(task_id, new_status) ==
    /\ UNCHANGED <<now, disk, pc, notified_ids, sent, reminded, saving, assigned>>
    /\ lastOp' = Returned("status", <<task_id, new_status>>,
                          status_path(tasks, task_id, new_status))
    /\ IF status_path(tasks, task_id, new_status) # "ok"
       THEN UNCHANGED <<tasks, file>>
       ELSE LET i == find_task(tasks, task_id)
                ts == [tasks EXCEPT ![i].status = Upper(new_status),
                                    ![i].updated_at = now_str(now)]
            IN /\ tasks' = ts
               /\ file' = save_tasks(ts, file, disk)

\* TaskManager.mark_complete
mark_complete(task_id) == update_status(task_id, DONE)

\* faulty checks of update_task: the priority is not compared with
\* VALID_PRIORITIES
update_path_any_priority(ts, task_id, start_time, end_time, priority) ==
    IF find_task(ts, task_id) = 0 THEN "not_found"
    ELSE IF Truthy(start_time) /\ ~parse_date(start_time).ok THEN "invalid_start"
    ELSE IF Truthy(end_time) /\ ~parse_date(end_time).ok THEN "invalid_end"
    ELSE "ok"

\* the path update_task returns by: the lookup, then the checks of the fields
\* given, in the order priority, start_time, end_time
update_path(ts, task_id, start_time, end_time, priority) ==
    IF find_task(ts, task_id) = 0 THEN "not_found"
    ELSE IF Truthy(priority) /\ Upper(priority) \notin VALID_PRIORITIES
    THEN "invalid_priority"
    ELSE IF Truthy(start_time) /\ ~parse_date(start_time).ok THEN "invalid_start"
    ELSE IF Truthy(end_time) /\ ~parse_date(end_time).ok THEN "invalid_end"
    ELSE "ok"

\* TaskManager.update_task.  The fields are handled in the order description,
\* priority, start_time, end_time; each is written to the task as soon as it
\* has passed its own check, and a later failure returns without undoing it
\* and without saving.
update_task(task_id, description, start_time, end_time, priority) ==
    /\ UNCHANGED <<now, disk, pc, notified_ids, sent, reminded, saving, assigned>>
    /\ lastOp' = Returned("update",
                          <<task_id, description, start_time, end_time, priority>>,
                          update_path(tasks, task_id, start_time, end_time, priority))
    /\ IF find_task(tasks, task_id) = 0
       THEN UNCHANGED <<tasks, file>>
       ELSE LET i == find_task(tasks, task_id)
                path == update_path(tasks, task_id, start_time, end_time, priority)
                t1 == IF Truthy(description)
                      THEN [tasks[i] EXCEPT !.description = description]
                      ELSE tasks[i]
                t2 == IF Truthy(priority)
                      THEN [t1 EXCEPT !.priority = Upper(priority)]
                      ELSE t1
                t3 == IF Truthy(start_time)
                      THEN [t2 EXCEPT !.start_time = start_time]
                      ELSE t2
                t4 == IF Truthy(end_time)
                      THEN [t3 EXCEPT !.end_time = end_time]
                      ELSE t3
                t5 == [t4 EXCEPT !.updated_at = now_str(now)]
            IN IF path = "invalid_priority"
               THEN tasks' = [tasks EXCEPT ![i] = t1] /\ UNCHANGED file
               ELSE IF path = "invalid_start"
               THEN tasks' = [tasks EXCEPT ![i] = t2] /\ UNCHANGED file
               ELSE IF path = "invalid_end"
               THEN tasks' = [tasks EXCEPT ![i] = t3] /\ UNCHANGED file
               ELSE /\ tasks' = [tasks EXCEPT ![i] = t5]
                    /\ file' = save_tasks([tasks EXCEPT ![i] = t5], file, disk)

\* TaskManager.delete_task
delete_task(task_id) ==
    /\ UNCHANGED <<now, disk, pc, notified_ids, sent, reminded, saving, assigned>>
    /\ lastOp' = Returned("delete", <<task_id>>,
                          IF find_task(tasks, task_id) = 0 THEN "not_found" ELSE "ok")
    /\ IF find_task(tasks, task_id) = 0
       THEN UNCHANGED <<tasks, file>>
       ELSE LET ts == RemoveAt(tasks, find_task(tasks, task_id))
            IN /\ tasks' = ts
               /\ file' = save_tasks(ts, file, disk)

(***************************************************************************)
(* Inputs of the commands.                                                 *)
(***************************************************************************)
DescA == <<"A">>
DescB == <<"B">>
\* "2025-06-01 09:00", "2025-06-01 10:00": the dates of the tests' fixture
Date0900 ==
    <<"2", "0", "2", "5", "-", "0", "6", "-", "0", "1", " ", "0", "9", ":", "0", "0">>
Date1000 ==
    <<"2", "0", "2", "5", "-", "0", "6", "-", "0", "1", " ", "1", "0", ":", "0", "0">>
\* "2025-06-01 09:30", "2025-06-01 11:00": new values given to update
Date0930 ==
    <<"2", "0", "2", "5", "-", "0", "6", "-", "0", "1", " ", "0", "9", ":", "3", "0">>
Date1100 ==
    <<"2", "0", "2", "5", "-", "0", "6", "-", "0", "1", " ", "1", "1", ":", "0", "0">>
\* "bad-date", "not-a-date", "01-06-2025 14:30", "2025-02-30 10:00"
BadDate == <<"b", "a", "d", "-", "d", "a", "t", "e">>
NotADate == <<"n", "o", "t", "-", "a", "-", "d", "a", "t", "e">>
WrongOrder ==
    <<"0", "1", "-", "0", "6", "-", "2", "0", "2", "5", " ", "1", "4", ":", "3", "0">>
Feb30 ==
    <<"2", "0", "2", "5", "-", "0", "2", "-", "3", "0", " ", "1", "0", ":", "0", "0">>
PrioHighLower == <<"h", "i", "g", "h">>
PrioLowMixed == <<"L", "o", "w">>
PrioUrgent == <<"U", "R", "G", "E", "N", "T">>
StatusDoneLower == <<"d", "o", "n", "e">>
StatusStarted == <<"S", "T", "A", "R", "T", "E", "D">>
StatusTodoMixed == <<"T", "o", "d", "o">>

\* the ids a caller may name: every id in use or ever assigned, and one more
CallIds == 1..(calls + 1)

AddCalls ==
    { <<DescA, Date0900, Date1000, FALSE, PrioHighLower>>,
      <<DescA, NotADate, Date1000, FALSE, LOW>>,
      <<DescA, Date0900, WrongOrder, TRUE, LOW>>,
      <<DescA, Date0900, Date1000, FALSE, PrioUrgent>> }

StatusCalls == {StatusDoneLower, IN_PROGRESS, StatusTodoMixed, StatusStarted}

\* <<description, start_time, end_time, priority>>, <<>> for a field not given
UpdateCalls ==
    { <<DescB, <<>>, <<>>, <<>>>>,
      <<<<>>, Date0930, Date1100, PrioLowMixed>>,
      <<DescB, <<>>, BadDate, <<>>>>,
      <<DescB, <<>>, <<>>, PrioUrgent>>,
      <<<<>>, Feb30, <<>>, PrioLowMixed>>,
      <<<<>>, Date0930, NotADate, <<>>>>,
      <<<<>>, <<>>, BadDate, <<>>>> }

(***************************************************************************)
(* The registry run from an empty or missing store.                        *)
(***************************************************************************)
Init ==
    /\ file \in {FileMissing, FileJson(<<>>)}
    /\ now = 0
    /\ tasks = load_tasks(<<>>, file, now)
    /\ disk = "ok"
    /\ pc = "ready"
    /\ notified_ids = {}
    /\ sent = <<>>
    /\ reminded = {}
    /\ saving = <<>>
    /\ assigned = {}
    /\ calls = 0
    /\ lastOp = Returned("init", <<>>, LoadPath(file, now))

CanCall == pc = "ready" /\ calls < MaxCalls

\* a second passes
Tick ==
    /\ now < MaxClock
    /\ now' = now + 1
    /\ UNCHANGED <<tasks, file, disk, pc, notified_ids, sent, reminded, saving, assigned,
                   calls, lastOp>>

AddTask ==
    /\ CanCall
    /\ calls' = calls + 1
    /\ \E c \in AddCalls : add_task(c[1], c[2], c[3], c[4], c[5])

UpdateStatus ==
    /\ CanCall
    /\ calls' = calls + 1
    /\ \E id \in CallIds, s \in StatusCalls : update_status(id, s)

UpdateTask ==
    /\ CanCall
    /\ calls' = calls + 1
    /\ \E id \in CallIds, c \in UpdateCalls : update_task(id, c[1], c[2], c[3], c[4])

MarkComplete ==
    /\ CanCall
    /\ calls' = calls + 1
    /\ \E id \in CallIds : mark_complete(id)

DeleteTask ==
    /\ CanCall
    /\ calls' = calls + 1
    /\ \E id \in CallIds : delete_task(id)

Next == Tick \/ AddTask \/ UpdateStatus \/ MarkComplete \/ UpdateTask \/ DeleteTask

Spec == Init /\ [][Next]_vars

(***************************************************************************)
(* The registry on a storage that may fail: between two calls the storage  *)
(* may begin or cease to refuse open(.., "w") or to fail in json.dump.     *)
(***************************************************************************)
DiskStates == {"ok", "open_fails", "write_fails"}

DiskFault ==
    /\ pc = "ready"
    /\ \E d \in DiskStates \ {disk} : disk' = d
    /\ UNCHANGED <<tasks, file, now, pc, notified_ids, sent, reminded, saving, assigned,
                   calls, lastOp>>

\* the calls made while the storage may fail
IOBudget == calls < MaxIOCalls

AddTaskIO == IOBudget /\ AddTask
UpdateStatusIO == IOBudget /\ UpdateStatus
MarkCompleteIO == IOBudget /\ MarkComplete
UpdateTaskIO == IOBudget /\ UpdateTask
DeleteTaskIO == IOBudget /\ DeleteTask

NextIO ==
    Tick \/ DiskFault \/ AddTaskIO \/ UpdateStatusIO \/ MarkCompleteIO
        \/ UpdateTaskIO \/ DeleteTaskIO

SpecIO == Init /\ [][NextIO]_vars

(***************************************************************************)
(* The registry given descriptions of any length: add and update calls     *)
(* with a description that may be the empty text.                          *)
(***************************************************************************)
Descriptions == {DescA, <<>>}

AddDescribed ==
    /\ CanCall
    /\ calls' = calls + 1
    /\ \E d \in Descriptions, r \in BOOLEAN :
          add_task(d, Date0900, Date1000, r, PrioHighLower)

NextText == AddDescribed \/ UpdateTask

SpecText == Init /\ [][NextText]_vars

(***************************************************************************)
(* The notification loop: TaskManager.check_notifications.                 *)
(***************************************************************************)
\* seconds slept between two iterations
PollSeconds == 30
\* the reminder window, in seconds before end_time
WindowSeconds == 60

\* a faulty window: a task exactly WindowSeconds before its end is left out
ShouldNotify_open_window(t, ids, n) ==
    /\ t.status # DONE
    /\ t.reminder_enabled
    /\ t.end_time # NA
    /\ t.task_id \notin ids
    /\ parse_date(t.end_time).ok
    /\ 0 < SecondsUntil(parse_date(t.end_time), n)
    /\ SecondsUntil(parse_date(t.end_time), n) < WindowSeconds

\* the condition under which one pass of the for loop calls notify for task t,
\* ids being notified_ids at that point and n the reading of datetime.now()
ShouldNotify(t, ids, n) ==
    /\ t.status # DONE
    /\ t.reminder_enabled
    /\ t.end_time # NA
    /\ t.task_id \notin ids
    /\ parse_date(t.end_time).ok
    /\ 0 < SecondsUntil(parse_date(t.end_time), n)
    /\ SecondsUntil(parse_date(t.end_time), n) <= WindowSeconds

\* the for loop over self.tasks: the ids notify was called for, in order, ids
\* being the notified set before the loop
RECURSIVE NotifyPass(_, _, _)
NotifyPass(ts, ids, n) ==
    IF ts = <<>> THEN <<>>
    ELSE IF ShouldNotify(Head(ts), ids, n)
    THEN <<Head(ts).task_id>>
            \o NotifyPass(Tail(ts), ids \cup {Head(ts).task_id}, n)
    ELSE NotifyPass(Tail(ts), ids, n)

Range(q) == {q[i] : i \in 1..Len(q)}

\* the tasks of ts that notify was called for in a pass that fired the ids of
\* the sequence fired
RemindedBy(ts, fired) ==
    {<<ts[i].task_id, ts[i].created_at>> :
        i \in {k \in 1..Len(ts) : k = find_task(ts, ts[k].task_id)
                                      /\ ts[k].task_id \in Range(fired)}}

\* check_notifications up to the loop: without plyer it returns at once
start_notifications(plyer_available) ==
    /\ pc = "ready"
    /\ pc' = IF plyer_available THEN "notify" ELSE "stopped"
    /\ notified_ids' = {}
    /\ lastOp' = Returned("notify", <<>>, IF plyer_available THEN "ok" ELSE "no_plyer")
    /\ UNCHANGED <<tasks, file, now, disk, sent, reminded, saving, assigned, calls>>

\* a faulty iteration: the ids notified are not remembered
poll_forgetful ==
    /\ pc = "notify"
    /\ LET ts == load_tasks(tasks, file, now)
           fired == NotifyPass(ts, notified_ids, now)
       IN /\ tasks' = ts
          /\ sent' = sent \o fired
          /\ reminded' = reminded \cup RemindedBy(ts, fired)
          /\ lastOp' = Returned("poll", <<>>, LoadPath(file, now))
    /\ now' = now + PollSeconds
    /\ UNCHANGED <<file, disk, pc, assigned, saving, notified_ids>>

\* a faulty iteration: the list just loaded is saved back
poll_saving ==
    /\ pc = "notify"
    /\ LET ts == load_tasks(tasks, file, now)
           fired == NotifyPass(ts, notified_ids, now)
       IN /\ tasks' = ts
          /\ file' = save_tasks(ts, file, disk)
          /\ sent' = sent \o fired
          /\ reminded' = reminded \cup RemindedBy(ts, fired)
          /\ notified_ids' = notified_ids \cup Range(fired)
          /\ lastOp' = Returned("poll", <<>>, LoadPath(file, now))
    /\ now' = now + PollSeconds
    /\ UNCHANGED <<disk, pc, assigned, saving>>

\* one iteration of the while loop: reload, the for loop, sleep
poll ==
    /\ pc = "notify"
    /\ LET ts == load_tasks(tasks, file, now)
           fired == NotifyPass(ts, notified_ids, now)
       IN /\ tasks' = ts
          /\ sent' = sent \o fired
          /\ reminded' = reminded \cup RemindedBy(ts, fired)
          /\ notified_ids' = notified_ids \cup Range(fired)
          /\ lastOp' = Returned("poll", <<>>, LoadPath(file, now))
    /\ now' = now + PollSeconds
    /\ UNCHANGED <<file, disk, pc, assigned, saving>>

\* KeyboardInterrupt ends the loop
interrupt ==
    /\ pc = "notify"
    /\ pc' = "stopped"
    /\ lastOp' = Returned("interrupt", <<>>, "ok")
    /\ UNCHANGED <<tasks, file, now, disk, notified_ids, sent, reminded, saving, assigned, calls>>

(***************************************************************************)
(* The file as other processes leave it.                                   *)
(***************************************************************************)
\* "2025-06-01 08:01", "2025-06-01 08:02": end times inside the modelled hour
Date0801 ==
    <<"2", "0", "2", "5", "-", "0", "6", "-", "0", "1", " ", "0", "8", ":", "0", "1">>
Date0802 ==
    <<"2", "0", "2", "5", "-", "0", "6", "-", "0", "1", " ", "0", "8", ":", "0", "2">>
\* "2025-01-01 00:00:00", the legacy timestamp of the tests
LegacyStamp ==
    <<"2", "0", "2", "5", "-", "0", "1", "-", "0", "1", " ",
      "0", "0", ":", "0", "0", ":", "0", "0">>

\* records written by save_tasks
RecOne ==
    to_dict(Task(1, DescA, TODO, HIGH, Date0900, Date0801, TRUE,
                 now_str(0), now_str(0)))
RecTwo ==
    to_dict(Task(2, DescB, TODO, LOW, Date0900, Date0802, TRUE,
                 now_str(0), now_str(0)))
\* a record of an older version of the program
RecLegacy ==
    [id |-> 3, description |-> DescA, status |-> DONE,
     createdAt |-> LegacyStamp, updatedAt |-> LegacyStamp]
\* records save_tasks wrote for a finished task, for a task without reminder,
\* and a legacy record that asks for a reminder and has no end_time: each
\* misses one condition of a reminder
RecDone ==
    to_dict(Task(5, DescA, DONE, HIGH, Date0900, Date0801, TRUE,
                 now_str(0), now_str(0)))
RecQuiet ==
    to_dict(Task(6, DescA, TODO, HIGH, Date0900, Date0801, FALSE,
                 now_str(0), now_str(0)))
RecOpenEnd ==
    [id |-> 7, description |-> DescA, status |-> IN_PROGRESS,
     reminder_enabled |-> TRUE, createdAt |-> LegacyStamp,
     updatedAt |-> LegacyStamp]
\* the record of a task added after task 1 was deleted from a list it was alone
\* in: get_next_id gave it the id 1 again
RecReused ==
    to_dict(Task(1, DescB, TODO, LOW, Date0900, Date0802, TRUE,
                 now_str(1), now_str(1)))
\* a record edited by hand: a reminder is asked for and end_time is no date
RecBadEnd ==
    [id |-> 8, description |-> DescB, status |-> TODO, end_time |-> BadDate,
     reminder_enabled |-> TRUE]
\* records edited by hand: no "id", no "description"
RecNoId == [description |-> DescB, status |-> TODO]
RecNoDescription == [id |-> 4, status |-> TODO]

WellFormed(rec) == "id" \in DOMAIN rec /\ "description" \in DOMAIN rec

ExternalFiles ==
    { FileMissing, FileCorrupt, FileJson(<<>>),
      FileJson(<<RecOne>>), FileJson(<<RecOne, RecTwo>>), FileJson(<<RecReused>>),
      FileJson(<<RecLegacy, RecBadEnd>>), FileJson(<<RecDone, RecQuiet, RecOpenEnd, RecTwo>>),
      FileJson(<<RecOne, RecNoId>>), FileJson(<<RecNoDescription, RecTwo>>) }

(***************************************************************************)
(* The notification service run beside other processes.                    *)
(***************************************************************************)
InitNotify ==
    /\ file \in ExternalFiles
    /\ now = 0
    /\ tasks = load_tasks(<<>>, file, now)
    /\ disk = "ok"
    /\ pc = "ready"
    /\ notified_ids = {}
    /\ sent = <<>>
    /\ reminded = {}
    /\ saving = <<>>
    /\ assigned = {}
    /\ calls = 0
    /\ lastOp = Returned("init", <<>>, LoadPath(file, now))

StartNotify == \E plyer_available \in BOOLEAN : start_notifications(plyer_available)

Poll ==
    /\ calls < MaxPolls
    /\ calls' = calls + 1
    /\ poll

Interrupt == interrupt

\* another process (this program run for one command, an editor, rm) changes
\* the file
ExternalWrite ==
    /\ \E f \in ExternalFiles : f # file /\ file' = f
    /\ lastOp' = Returned("external", <<>>, "ok")
    /\ UNCHANGED <<tasks, now, disk, pc, notified_ids, sent, reminded, saving, assigned, calls>>

\* (Tick lets the service start at second 0, 1, ..: the polls then fall on
\* start, start + 30, start + 60, ..)
NextNotify == Tick \/ StartNotify \/ Poll \/ Interrupt \/ ExternalWrite

SpecNotify == InitNotify /\ [][NextNotify]_vars

\* a step of Poll, told by its guard and by what it does to calls (no other
\* action of the service changes calls)
PollTaken == pc = "notify" /\ calls < MaxPolls /\ calls' = calls + 1

\* the same with the scheduling of the loop: `while True` with sleep(30) goes
\* on to its next iteration as long as nothing ends the process
SpecNotifyLive == SpecNotify /\ WF_calls(PollTaken)

(***************************************************************************)
(* The notification service beside another process that is inside          *)
(* save_tasks: open(TASK_FILE, "w") and json.dump are two steps, and the   *)
(* loop may reload the file between them.                                  *)
(***************************************************************************)
\* the files this program's save_tasks leaves
SavedFiles ==
    { FileJson(<<>>), FileJson(<<RecOne>>), FileJson(<<RecOne, RecTwo>>),
      FileJson(<<RecTwo>>) }

InitRace ==
    /\ file \in SavedFiles
    /\ now = 0
    /\ tasks = load_tasks(<<>>, file, now)
    /\ disk = "ok"
    /\ pc = "ready"
    /\ notified_ids = {}
    /\ sent = <<>>
    /\ reminded = {}
    /\ saving = <<>>
    /\ assigned = {}
    /\ calls = 0
    /\ lastOp = Returned("init", <<>>, LoadPath(file, now))

\* the other process reaches open(TASK_FILE, "w"): the file is truncated, and
\* until json.dump has written the whole list and the file is closed, what a
\* reader finds (nothing, or the beginning of the list) does not parse
SaveOpen ==
    /\ saving = <<>>
    /\ \E f \in SavedFiles \ {file} : saving' = <<file, f>>
    /\ file' = FileCorrupt
    /\ lastOp' = Returned("save_open", <<>>, "ok")
    /\ UNCHANGED <<tasks, now, disk, pc, notified_ids, sent, reminded, assigned, calls>>

\* json.dump has written the list and the with block has closed the file
SaveDump ==
    /\ saving # <<>>
    /\ file' = saving[2]
    /\ saving' = <<>>
    /\ lastOp' = Returned("save_dump", <<>>, "ok")
    /\ UNCHANGED <<tasks, now, disk, pc, notified_ids, sent, reminded, assigned, calls>>

NextRace == StartNotify \/ Poll \/ Interrupt \/ SaveOpen \/ SaveDump

SpecRace == InitRace /\ [][NextRace]_vars

(***************************************************************************)
(* The Task entity alone: to_dict and from_dict applied to tasks and to    *)
(* stored records.                                                         *)
(***************************************************************************)
\* well-formed tasks: legal status and priority, non-empty timestamps
EntityTasks ==
    { Task(id, d, st, p, s, e, r, c, now_str(1)) :
        id \in {1, 5}, d \in {DescA, <<>>}, st \in VALID_STATUSES,
        p \in VALID_PRIORITIES, s \in {Date0900, NA}, e \in {Date1000, NA},
        r \in BOOLEAN, c \in {now_str(0), LegacyStamp} }

\* a record with every key the program has ever written, none at its default
FullRecord ==
    [id |-> 1, description |-> DescB, status |-> DONE, priority |-> LOW,
     start_time |-> Date0900, end_time |-> Date1000, reminder_enabled |-> TRUE,
     created_at |-> now_str(0), updated_at |-> now_str(1),
     createdAt |-> LegacyStamp, updatedAt |-> LegacyStamp]
OptionalKeys ==
    {"status", "priority", "start_time", "end_time", "reminder_enabled",
     "created_at", "updated_at", "createdAt", "updatedAt"}
Restrict(rec, keys) == [k \in keys |-> rec[k]]

\* stored records: id and description with any of the other keys, and a record
\* without id
EntityRecords ==
    {Restrict(FullRecord, {"id", "description"} \cup ks) : ks \in SUBSET OptionalKeys}
        \cup {RecNoId}

InitEntity ==
    /\ \/ \E t \in EntityTasks :
             /\ tasks = <<t>> /\ file = FileMissing /\ pc = "entity"
       \/ \E rec \in EntityRecords :
             /\ tasks = <<>> /\ file = FileJson(<<rec>>) /\ pc = "record"
    /\ now = 0
    /\ disk = "ok"
    /\ notified_ids = {}
    /\ sent = <<>>
    /\ reminded = {}
    /\ saving = <<>>
    /\ assigned = {}
    /\ calls = 0
    /\ lastOp = Returned("init", <<>>, "ok")

\* t.to_dict() is stored and the task object is gone
Serialize ==
    /\ pc = "entity"
    /\ file' = FileJson(<<to_dict(tasks[1])>>)
    /\ tasks' = <<>>
    /\ pc' = "dict"
    /\ lastOp' = Returned("to_dict", <<tasks[1]>>, "ok")
    /\ UNCHANGED <<now, disk, notified_ids, sent, reminded, saving, assigned, calls>>

\* Task.from_dict(data) on the stored record; lastOp keeps the record and,
\* after Serialize, the task it was made from
Deserialize ==
    /\ pc \in {"dict", "record"}
    /\ LET r == from_dict(file.data[1], now)
       IN /\ tasks' = IF r.ok THEN <<r.task>> ELSE <<>>
          /\ lastOp' = Returned("from_dict",
                                IF pc = "dict"
                                THEN <<file.data[1], lastOp.args[1]>>
                                ELSE <<file.data[1]>>,
                                IF r.ok THEN "ok" ELSE "key_error")
    /\ pc' = IF pc = "dict" THEN "restored" ELSE "read"
    /\ UNCHANGED <<file, now, disk, notified_ids, sent, reminded, saving, assigned, calls>>

NextEntity == Serialize \/ Deserialize

SpecEntity == InitEntity /\ [][NextEntity]_vars

(***************************************************************************)
(* Properties.                                                             *)
(***************************************************************************)
\* the step is a call of the command op
Called(op) == calls' = calls + 1 /\ lastOp'.op = op

\* the task list the file holds, as save_tasks writes one (a missing file
\* counting as the empty list)
Persisted(ts) == [i \in 1..Len(ts) |-> to_dict(ts[i])]
FileHolds(f, ts) ==
    \/ f.kind = "json" /\ f.data = Persisted(ts)
    \/ f.kind = "missing" /\ ts = <<>>

\* the texts among the inputs that are no YYYY-MM-DD HH:MM date
BadDates == {BadDate, NotADate, WrongOrder, Feb30}

\* C1: after any sequence of add, update_status, update and delete calls on a
\* registry started from an empty or missing store, no two tasks of the
\* in-memory list have the same id.
C1_IdsUnique ==
    \A i, j \in 1..Len(tasks) : i # j => tasks[i].task_id # tasks[j].task_id

\* C1's case: two tasks are held after a task was deleted and another added
C1_Witness ==
    /\ Len(tasks) = 2
    /\ lastOp.op = "add" /\ lastOp.result = "ok"
    /\ Cardinality(assigned) = 3

\* C2: the id given to a newly added task differs from every id an earlier add
\* assigned, whichever tasks were deleted in between.
C2_IdsNeverReused ==
    [][(Called("add") /\ lastOp'.result = "ok")
          => tasks'[Len(tasks')].task_id \notin assigned]_vars

\* C3: update is all-or-nothing: when the target exists and a supplied field
\* fails validation, every task keeps all its fields and nothing is written.
C3_UpdateAllOrNothing ==
    [][(/\ Called("update")
        /\ find_task(tasks, lastOp'.args[1]) # 0
        /\ \/ lastOp'.args[3] \in BadDates
           \/ lastOp'.args[4] \in BadDates
           \/ /\ Truthy(lastOp'.args[5])
              /\ Upper(lastOp'.args[5]) \notin {HIGH, MEDIUM, LOW})
          => (tasks' = tasks /\ file' = file)]_vars

\* C4: an add call whose start_time or end_time is no date, or whose priority
\* is, whatever its case, none of HIGH, MEDIUM, LOW, creates no task: the list
\* in memory and the file are what they were.
C4_RejectedAddChangesNothing ==
    [][(/\ Called("add")
        /\ \/ lastOp'.args[2] \in BadDates
           \/ lastOp'.args[3] \in BadDates
           \/ Upper(lastOp'.args[5]) \notin {HIGH, MEDIUM, LOW})
          => (tasks' = tasks /\ file' = file)]_vars

\* C4's case: add was called with a bad end_time on a list that holds a task
C4_Witness ==
    /\ lastOp.op = "add"
    /\ lastOp.args[3] \in BadDates
    /\ Len(tasks) >= 1

\* C5: write-through: with no save failing, after every completed add,
\* update_status, update or delete call the task list in the file equals the
\* task list in memory field for field.
C5_WriteThrough == disk = "ok" => FileHolds(file, tasks)

\* C6: update_status with a status that is, whatever its case, none of TODO,
\* IN_PROGRESS, DONE, or with an id no task has, leaves every task and the
\* file as they were.
C6_RejectedStatusChangesNothing ==
    [][(/\ Called("status")
        /\ \/ Upper(lastOp'.args[2]) \notin {TODO, IN_PROGRESS, DONE}
           \/ \A i \in 1..Len(tasks) : tasks[i].task_id # lastOp'.args[1])
          => (tasks' = tasks /\ file' = file)]_vars

\* C6's case: an illegal status was asked for a task of the list, at a second
\* later than the task's last update
C6_Witness ==
    /\ lastOp.op = "status"
    /\ lastOp.args[2] = StatusStarted
    /\ \E i \in 1..Len(tasks) :
          /\ tasks[i].task_id = lastOp.args[1]
          /\ tasks[i].updated_at # now_str(now)

\* C7: delete of an id of the list removes that task and no other, keeps the
\* others with their fields in their order, and writes the result; delete of
\* an absent id leaves the list and the file as they were.
C7_DeleteRemovesExactlyThat ==
    [][Called("delete")
          => IF \E i \in 1..Len(tasks) : tasks[i].task_id = lastOp'.args[1]
             THEN /\ tasks' = SelectSeq(tasks,
                                  LAMBDA t : t.task_id # lastOp'.args[1])
                  /\ Len(tasks') = Len(tasks) - 1
                  /\ file' = FileJson(Persisted(tasks'))
             ELSE tasks' = tasks /\ file' = file]_vars

\* C7's case: a task that was not the last of the list has been deleted and
\* another is left
C7_Witness ==
    /\ lastOp.op = "delete" /\ lastOp.result = "ok"
    /\ Len(tasks) >= 1
    /\ tasks[Len(tasks)].task_id > lastOp.args[1]

\* the state is the one load_tasks left, at construction or in the loop
JustLoaded == lastOp.op \in {"init", "poll"}

\* C8: whenever load runs on a file whose content cannot be parsed, at
\* construction or at a reload of the notification loop, the list in memory
\* is empty afterwards and the process goes on.
C8_CorruptFileLoadsEmpty ==
    (JustLoaded /\ file.kind = "corrupt")
        => (tasks = <<>> /\ lastOp.result = "json_error")

\* C8's case: the loop reloaded an unparseable file after it had held tasks
\* (a reminder was sent for one of them)
C8_Witness ==
    /\ lastOp.op = "poll"
    /\ file.kind = "corrupt"
    /\ sent # <<>>

\* C9: whenever load runs while the file does not exist, at construction or
\* at a later reload of the notification loop, the list in memory is empty
\* afterwards.
C9_MissingFileLoadsEmpty ==
    (JustLoaded /\ file.kind = "missing") => tasks = <<>>

\* C10: loading a file that holds a record without id or description together
\* with well-formed records yields every well-formed record in memory.
C10_BadRecordFailsAlone ==
    (JustLoaded /\ file.kind = "json")
        => \A i \in 1..Len(file.data) :
              WellFormed(file.data[i])
                  => \E j \in 1..Len(tasks) :
                        /\ tasks[j].task_id = file.data[i].id
                        /\ tasks[j].description = file.data[i].description

C12_AnyLegalTransition ==
    [][(/\ Called("status")
        /\ Upper(lastOp'.args[2]) \in {TODO, IN_PROGRESS, DONE}
        /\ \E i \in 1..Len(tasks) : tasks[i].task_id = lastOp'.args[1])
          => LET i == CHOOSE k \in 1..Len(tasks) :
                          tasks[k].task_id = lastOp'.args[1]
             IN /\ tasks' = [tasks EXCEPT
                               ![i] = [tasks[i] EXCEPT
                                         !.status = Upper(lastOp'.args[2]),
                                         !.updated_at = now_str(now)]]
                /\ file' = FileJson(Persisted(tasks'))]_vars

\* C12's case: a task that is not the only one was moved to TODO at a second
\* later than its creation (every task starts as TODO: it came back, or
\* stayed)
C12_Witness ==
    /\ lastOp.op = "status" /\ lastOp.result = "ok"
    /\ lastOp.args[2] = StatusTodoMixed
    /\ Len(tasks) = 2
    /\ \E i \in 1..2 :
          /\ tasks[i].task_id = lastOp.args[1]
          /\ tasks[i].status = TODO
          /\ tasks[i].updated_at # tasks[i].created_at

\* the second, counted like the clock, at which a date text of the inputs
\* falls (08:01 is 60 s after 08:00:00, 09:00 is 3600 s after it)
EndSecond(e) ==
    IF e = Date0801 THEN 60
    ELSE IF e = Date0802 THEN 120
    ELSE IF e = Date0900 THEN 3600
    ELSE IF e = Date0930 THEN 5400
    ELSE IF e = Date1000 THEN 7200
    ELSE 10800

\* the due-soon predicate as the specification words it, for a task t, the ids
\* notified before the poll and the second n of the poll
DueSoon(t, ids, n) ==
    /\ t.status # DONE
    /\ t.reminder_enabled = TRUE
    /\ t.end_time # NA
    /\ t.task_id \notin ids
    /\ EndSecond(t.end_time) - n > 0
    /\ EndSecond(t.end_time) - n <= 60

\* the reminders sent by the step
Fired == {sent'[k] : k \in (Len(sent) + 1)..Len(sent')}

\* C13: at each poll a reminder is sent for a task of the list the loop goes
\* through if and only if the task is not DONE, has reminder_enabled, has an
\* end_time other than "N/A", its id was not notified earlier in the run, and
\* more than 0 and at most 60 seconds remain until its end_time.
C13_ReminderIffDueSoon ==
    [][Called("poll")
          => /\ Len(sent') >= Len(sent)
             /\ SubSeq(sent', 1, Len(sent)) = sent
             /\ \A i \in 1..Len(tasks') :
                   (tasks'[i].task_id \in Fired)
                       <=> DueSoon(tasks'[i], notified_ids, now)]_vars

\* C13's case: a poll went through a list of four tasks of which three miss
\* one condition each, exactly 60 seconds before the end of the fourth, and
\* sent the reminder for that one alone
C13_Witness ==
    /\ lastOp.op = "poll"
    /\ Len(tasks) = 4
    /\ now = 60 + PollSeconds
    /\ sent = <<2>>

\* C14: within one run of the notification loop at most one reminder is sent
\* per task id, whatever the number of polls and whatever other processes do
\* to the file between them.
C14_AtMostOneReminderPerId ==
    \A i, j \in 1..Len(sent) : i # j => sent[i] # sent[j]

\* C14's case: a task that got its reminder was polled again while still
\* inside its window, and no second reminder followed
C14_Witness ==
    /\ lastOp.op = "poll"
    /\ calls >= 2
    /\ sent = <<1>>
    /\ \E i \in 1..Len(tasks) :
          /\ tasks[i].task_id = 1
          /\ DueSoon(tasks[i], {}, now - PollSeconds)

\* C15: round trip: for every well-formed task t, from_dict(to_dict(t)) has
\* the value of t in each of the nine fields.
C15_RoundTrip ==
    pc = "restored"
        => /\ lastOp.result = "ok"
           /\ Len(tasks) = 1
           /\ LET t == lastOp.args[2]
                  u == tasks[1]
              IN /\ u.task_id = t.task_id
                 /\ u.description = t.description
                 /\ u.status = t.status
                 /\ u.priority = t.priority
                 /\ u.start_time = t.start_time
                 /\ u.end_time = t.end_time
                 /\ u.reminder_enabled = t.reminder_enabled
                 /\ u.created_at = t.created_at
                 /\ u.updated_at = t.updated_at

\* C15's case: a task with reminder, an empty description and no times went
\* through to_dict and from_dict
C15_Witness ==
    /\ pc = "restored"
    /\ lastOp.args[2].reminder_enabled
    /\ lastOp.args[2].description = <<>>
    /\ lastOp.args[2].end_time = NA
    /\ lastOp.args[2].status = IN_PROGRESS

\* C16: from_dict on a record that has id and description fills what is
\* missing: priority MEDIUM, start_time and end_time "N/A", reminder_enabled
\* false, and created_at / updated_at from createdAt / updatedAt.
C16_DefaultsForMissingFields ==
    (pc = "read" /\ "id" \in DOMAIN lastOp.args[1]
                 /\ "description" \in DOMAIN lastOp.args[1])
        => /\ Len(tasks) = 1
           /\ LET rec == lastOp.args[1]
                  u == tasks[1]
              IN /\ "priority" \notin DOMAIN rec => u.priority = MEDIUM
                 /\ "start_time" \notin DOMAIN rec => u.start_time = NA
                 /\ "end_time" \notin DOMAIN rec => u.end_time = NA
                 /\ "reminder_enabled" \notin DOMAIN rec
                       => u.reminder_enabled = FALSE
                 /\ ("created_at" \notin DOMAIN rec /\ "createdAt" \in DOMAIN rec)
                       => u.created_at = rec.createdAt
                 /\ ("updated_at" \notin DOMAIN rec /\ "updatedAt" \in DOMAIN rec)
                       => u.updated_at = rec.updatedAt

\* C16's case: the record of the tests (id, description, status, createdAt,
\* updatedAt) was read
C16_Witness ==
    /\ pc = "read"
    /\ DOMAIN lastOp.args[1]
          = {"id", "description", "status", "createdAt", "updatedAt"}
    /\ Len(tasks) = 1

\* the in-memory effect of an accepted call, read off its arguments
EffectStands(op, args, old, new) ==
    IF op = "add"
    THEN /\ Len(new) = Len(old) + 1
         /\ SubSeq(new, 1, Len(old)) = old
         /\ new[Len(new)].description = args[1]
         /\ new[Len(new)].start_time = args[2]
         /\ new[Len(new)].end_time = args[3]
         /\ new[Len(new)].reminder_enabled = args[4]
         /\ new[Len(new)].status = TODO
    ELSE IF op = "delete"
    THEN /\ Len(new) = Len(old) - 1
         /\ \A i \in 1..Len(new) : new[i].task_id # args[1]
    ELSE /\ Len(new) = Len(old)
         /\ \E i \in 1..Len(new) :
               /\ new[i].task_id = args[1]
               /\ IF op = "status"
                  THEN new[i].status = Upper(args[2])
                  ELSE /\ args[2] # <<>> => new[i].description = args[2]
                       /\ args[3] # <<>> => new[i].start_time = args[3]
                       /\ args[4] # <<>> => new[i].end_time = args[4]
                       /\ args[5] # <<>> => new[i].priority = Upper(args[5])

\* C17: when the save ending an accepted add, update_status, update or delete
\* fails, the call still returns normally and its in-memory effect stands; a
\* save that succeeds leaves the file holding exactly the in-memory list,
\* whatever earlier failures left in it.
C17_SaveFailureTolerated ==
    [][(calls' = calls + 1 /\ lastOp'.result = "ok")
          => /\ pc' = "ready"
             /\ EffectStands(lastOp'.op, lastOp'.args, tasks, tasks')
             /\ disk = "ok" => file' = FileJson(Persisted(tasks'))
             /\ disk # "ok" => file' \in {file, FileCorrupt}]_vars

\* C17's case: a delete was accepted while json.dump failed: the task is gone
\* from memory and the file does not parse
C17_Witness ==
    /\ lastOp.op = "delete"
    /\ lastOp.result = "ok"
    /\ disk = "write_fails"
    /\ file = FileCorrupt
    /\ Len(tasks) = 1


\* the step is one of the notification service: its start, a poll, its end
LoopStep ==
    /\ lastOp'.op \in {"notify", "poll", "interrupt"}
    /\ pc' # pc \/ calls' = calls + 1

\* C18: the notification loop never writes the file: no start, poll (with or
\* without reminders sent) or interruption of the loop changes its content.
C18_LoopNeverWrites ==
    [][LoopStep => file' = file]_vars

\* C18's case: the loop was interrupted after several polls and a reminder,
\* over a file whose records are not in the form to_dict writes
C18_Witness ==
    /\ pc = "stopped"
    /\ lastOp.op = "interrupt"
    /\ calls >= 2
    /\ sent # <<>>
    /\ file = FileJson(<<RecOne>>)

\* task t is what the stored record rec says
Mirrors(t, rec) ==
    /\ t.task_id = rec.id
    /\ t.description = rec.description
    /\ "status" \in DOMAIN rec => t.status = rec.status
    /\ "end_time" \in DOMAIN rec => t.end_time = rec.end_time
    /\ "reminder_enabled" \in DOMAIN rec => t.reminder_enabled = rec.reminder_enabled

\* C19: each poll evaluates the tasks of the file as it is at that poll: when
\* the file holds well-formed records, the list the loop goes through has
\* exactly those tasks, and each of them that is due is reminded of, whatever
\* the list was before.
C19_PollSeesCurrentFile ==
    [][(Called("poll") /\ file.kind = "json"
            /\ \A i \in 1..Len(file.data) : WellFormed(file.data[i]))
          => /\ Len(tasks') = Len(file.data)
             /\ \A i \in 1..Len(tasks') :
                   /\ Mirrors(tasks'[i], file.data[i])
                   /\ DueSoon(tasks'[i], notified_ids, now)
                         => tasks'[i].task_id \in notified_ids']_vars

\* C19's case: the loop reminded of task 1 from a file that held it, the file
\* was then replaced by one of four other tasks, and a later poll reminded of
\* task 2 of that file
C19_Witness ==
    /\ lastOp.op = "poll"
    /\ sent = <<1, 2>>
    /\ Len(tasks) = 4
    /\ pc = "notify"


\* C20: an accepted update changes, of the target task, only the fields that
\* were supplied and updated_at: the fields not supplied, status,
\* reminder_enabled (and the id and created_at) keep their values, and so does
\* every other task.
C20_UpdateTouchesOnlySupplied ==
    [][(Called("update") /\ lastOp'.result = "ok")
          => /\ Len(tasks') = Len(tasks)
             /\ \A i \in 1..Len(tasks) :
                   IF tasks[i].task_id = lastOp'.args[1]
                   THEN /\ tasks'[i].task_id = tasks[i].task_id
                        /\ tasks'[i].status = tasks[i].status
                        /\ tasks'[i].reminder_enabled = tasks[i].reminder_enabled
                        /\ tasks'[i].created_at = tasks[i].created_at
                        /\ lastOp'.args[2] = <<>>
                              => tasks'[i].description = tasks[i].description
                        /\ lastOp'.args[3] = <<>>
                              => tasks'[i].start_time = tasks[i].start_time
                        /\ lastOp'.args[4] = <<>>
                              => tasks'[i].end_time = tasks[i].end_time
                        /\ lastOp'.args[5] = <<>>
                              => tasks'[i].priority = tasks[i].priority
                   ELSE tasks'[i] = tasks[i]]_vars

\* C20's case: of two tasks the first was given new times and a new priority
\* and no description
C20_Witness ==
    /\ lastOp.op = "update"
    /\ lastOp.result = "ok"
    /\ lastOp.args[1] = 1
    /\ lastOp.args[2] = <<>>
    /\ Len(tasks) = 2
    /\ tasks[1].task_id = 1
    /\ tasks[1].description = DescA
    /\ tasks[1].priority = LOW
    /\ tasks[1].start_time = Date0930
    /\ tasks[2].priority = HIGH


\* the in-memory list ts is what a load of file f gave: the file is unchanged
\* since
LoadedFrom(ts, f) ==
    /\ f.kind = "json"
    /\ Len(ts) = Len(f.data)
    /\ \A i \in 1..Len(ts) : WellFormed(f.data[i]) /\ Mirrors(ts[i], f.data[i])

\* the step is a command of the registry, or a reload by the notification
\* loop of the file the list was loaded from
RegistryStep ==
    \/ /\ calls' = calls + 1
       /\ lastOp'.op \in {"add", "status", "update", "delete"}
    \/ Called("poll") /\ LoadedFrom(tasks, file)

\* C21: no operation of the registry changes the id or the created_at of a
\* task already in the collection: after the step every task that was there
\* is there with the same id and created_at, unless the step deleted it.
C21_IdAndCreatedAtKept ==
    [][RegistryStep
          => \A i \in 1..Len(tasks) :
                \/ \E j \in 1..Len(tasks') :
                      /\ tasks'[j].task_id = tasks[i].task_id
                      /\ tasks'[j].created_at = tasks[i].created_at
                \/ /\ lastOp'.op = "delete"
                   /\ lastOp'.args[1] = tasks[i].task_id]_vars


\* the record of the task with that id in file f, <<>> when f has none
StoredRecord(f, id) ==
    IF f.kind = "json" /\ \E i \in 1..Len(f.data) : f.data[i].id = id
    THEN <<f.data[CHOOSE i \in 1..Len(f.data) : f.data[i].id = id]>>
    ELSE <<>>

\* the accepted call of the step is an add, or an update of that task that
\* supplies value v as argument number k
SuppliedNow(id, k, v) ==
    /\ lastOp'.op = "update"
    /\ lastOp'.args[1] = id
    /\ lastOp'.args[k] # <<>>
    /\ v = IF k = 5 THEN Upper(lastOp'.args[k]) ELSE lastOp'.args[k]

\* C22: a value given to a rejected update never reaches the file: the
\* rejected call writes nothing, and what an accepted operation writes for a
\* task already stored is, field by field, what the file held for that task or
\* what that very operation was given.
C22_RejectedValueNeverPersisted ==
    [][/\ (Called("update") /\ lastOp'.result # "ok") => file' = file
       /\ (calls' = calls + 1 /\ lastOp'.result = "ok" /\ file'.kind = "json")
             => \A j \in 1..Len(file'.data) :
                   LET new == file'.data[j]
                       old == StoredRecord(file, new.id)
                   IN old # <<>>
                         => /\ \/ new.description = old[1].description
                               \/ SuppliedNow(new.id, 2, new.description)
                            /\ \/ new.start_time = old[1].start_time
                               \/ SuppliedNow(new.id, 3, new.start_time)
                            /\ \/ new.end_time = old[1].end_time
                               \/ SuppliedNow(new.id, 4, new.end_time)
                            /\ \/ new.priority = old[1].priority
                               \/ SuppliedNow(new.id, 5, new.priority)]_vars


\* C23: reminder suppression is per task: at each poll a task of the list that
\* is not DONE, has reminder_enabled and an end_time more than 0 and at most 60
\* seconds away, and for which no reminder was sent in this run, gets its
\* reminder, whatever was sent earlier for another task, deleted since.
C23_SuppressionIsPerTask ==
    [][Called("poll")
          => \A i \in 1..Len(tasks') :
                (/\ tasks'[i].status # DONE
                 /\ tasks'[i].reminder_enabled = TRUE
                 /\ tasks'[i].end_time # NA
                 /\ EndSecond(tasks'[i].end_time) - now > 0
                 /\ EndSecond(tasks'[i].end_time) - now <= 60
                 /\ <<tasks'[i].task_id, tasks'[i].created_at>> \notin reminded)
                    => tasks'[i].task_id \in Fired]_vars


\* C24: save replaces the file as a whole: a reload by the notification loop
\* while another process is saving finds the complete list of before the
\* save or the complete list of after it, and loads that list.
C24_SaveIsAtomicForReaders ==
    [][(Called("poll") /\ saving # <<>>)
          => /\ file \in {saving[1], saving[2]}
             /\ Len(tasks') = Len(file.data)]_vars


\* C25: after any sequence of add, update_status, update and delete calls,
\* accepted or rejected, in any letter case, every task has one of the
\* statuses TODO, IN_PROGRESS, DONE and one of the priorities HIGH, MEDIUM,
\* LOW, in upper case.
C25_StatusAndPriorityLegal ==
    \A i \in 1..Len(tasks) :
        /\ tasks[i].status \in
              { <<"T", "O", "D", "O">>,
                <<"I", "N", "_", "P", "R", "O", "G", "R", "E", "S", "S">>,
                <<"D", "O", "N", "E">> }
        /\ tasks[i].priority \in
              { <<"H", "I", "G", "H">>, <<"M", "E", "D", "I", "U", "M">>,
                <<"L", "O", "W">> }

\* C25's case: a task added with the priority "high" was given "Low" by an
\* update and then "done" by update_status, after an update with "URGENT"
\* was rejected
C25_Witness ==
    /\ calls = 4
    /\ lastOp.op = "status"
    /\ lastOp.args[2] = StatusDoneLower
    /\ lastOp.result = "ok"
    /\ Len(tasks) = 1
    /\ tasks[1].status = DONE
    /\ tasks[1].priority = LOW
    /\ tasks[1].description = DescB

\* C26: after any sequence of add and update calls on a registry started from
\* an empty store, every task has a description that is not empty.
C26_DescriptionNonEmpty ==
    \A i \in 1..Len(tasks) : tasks[i].description # <<>>


\* the file is readable and holds a task with that id that asks for a
\* reminder, is not DONE and ends at that time
StaysDue(id, end) ==
    /\ file.kind = "json"
    /\ \E i \in 1..Len(file.data) :
          /\ "id" \in DOMAIN file.data[i]
          /\ file.data[i].id = id
          /\ {"status", "end_time", "reminder_enabled"} \subseteq DOMAIN file.data[i]
          /\ file.data[i].status # DONE
          /\ file.data[i].reminder_enabled = TRUE
          /\ file.data[i].end_time = end

\* the clock is within the 60 seconds before that time
InWindow(end) == EndSecond(end) - now > 0 /\ EndSecond(end) - now <= 60

\* C27: reminder liveness, for the task 2 that ends at 08:02: if the loop is
\* started and never stopped, and through the 60 seconds before 08:02 the file
\* is readable and holds the task with reminder_enabled, a status other than
\* DONE and that end_time, then a poll made before 08:02 has sent the reminder
\* for it.
C27_ReminderBeforeEnd ==
    (/\ <>(pc = "notify")
     /\ [](pc # "stopped")
     /\ [](InWindow(Date0802) => StaysDue(2, Date0802)))
        => <>(/\ 2 \in Range(sent)
              /\ lastOp.op = "poll"
              /\ now - PollSeconds < EndSecond(Date0802))

=============================================================================
